---- MODULE Spec2Model ----
(***************************************************************************)
(* Model of the scaffolding scripts setup_project.py and setup_db.py and   *)
(* of the two generators they emit (add_page.py, add_model.py).            *)
(*                                                                         *)
(* The only state shared between runs is the file system.  A path is a     *)
(* sequence of path segments (<<"app", "common", "db.py">>), a file's      *)
(* content is a sequence of text tokens; the token "\n" is the line break  *)
(* and " " a blank.  Bodies of templates that no script ever parses are    *)
(* one opaque token.  Every script function is an operator from a world    *)
(* record [files, dirs, out, cmds, status] to a world record, composed in  *)
(* the order of the statements of the source; `out` is standard output,    *)
(* one <<tag, path>> pair per printed line, `cmds` the subprocesses        *)
(* started with their exit codes.  Effects of the external tools on disk   *)
(* (the migration tool, the database driver) are outside the model.        *)
(***************************************************************************)
EXTENDS Integers, Sequences, FiniteSets, TLC

VARIABLES
    files,      \* path -> content, for every regular file on disk
    dirs,       \* the directories on disk
    out,        \* standard output of the last operation
    cmds,       \* subprocesses started by the last operation: <<name, exit code>>
    status,     \* "ok": the last operation returned; "raised": an exception escaped
    op,         \* the last operation and its inputs
    prev,       \* [files, dirs] as they were when the last operation started
    prevOp,     \* the operation before the last one
    start,      \* [files, dirs] of the initial tree
    nops,       \* number of operations run so far
    pending,    \* SpecPerm: the TEMPLATES entries the running setup_project has not processed
    first_app   \* SpecPerm: the first entry under app/ that was processed, <<>> before

vars == <<files, dirs, out, cmds, status, op, prev, prevOp, start, nops, pending, first_app>>

(***************************************************************************)
(* Bounds                                                                  *)
(***************************************************************************)
\* operations per behaviour
MaxOps == 2
\* lines of an initial .env / requirements.txt drawn by the merger specifications
MaxLines == 2

(***************************************************************************)
(* Paths and text                                                          *)
(***************************************************************************)
NL == "\n"
SP == " "

Parent(p) == SubSeq(p, 1, Len(p) - 1)

\* every non-empty prefix of directory d: what mkdir(parents=True) ensures
Ancestors(d) == { SubSeq(d, 1, i) : i \in 1..Len(d) }

Last(s) == s[Len(s)]

IsWhite(t) == t = SP

RECURSIVE LStrip(_)
LStrip(s) == IF s # <<>> /\ IsWhite(Head(s)) THEN LStrip(Tail(s)) ELSE s

RECURSIVE RStrip(_)
RStrip(s) == IF s # <<>> /\ IsWhite(Last(s)) THEN RStrip(Parent(s)) ELSE s

\* str.strip()
Strip(s) == RStrip(LStrip(s))

\* index of the first occurrence of token t in s, 0 when there is none
RECURSIVE IndexFrom(_, _, _)
IndexFrom(s, t, i) ==
    IF i > Len(s) THEN 0
    ELSE IF s[i] = t THEN i
    ELSE IndexFrom(s, t, i + 1)

IndexOf(s, t) == IndexFrom(s, t, 1)

\* str.split(sep)[0]: the text before the first separator, all of it without one
BeforeFirst(s, sep) ==
    LET i == IndexOf(s, sep)
    IN  IF i = 0 THEN s ELSE SubSeq(s, 1, i - 1)

\* str.splitlines(): the lines without their breaks; no empty last line after
\* a final break
RECURSIVE splitlines(_)
splitlines(text) ==
    IF text = <<>> THEN <<>>
    ELSE LET i == IndexOf(text, NL)
         IN  IF i = 0 THEN <<text>>
             ELSE <<SubSeq(text, 1, i - 1)>> \o splitlines(SubSeq(text, i + 1, Len(text)))

\* `needle in text` for strings: a contiguous occurrence
Contains(text, needle) ==
    \E i \in 0..(Len(text) - Len(needle)) :
        SubSeq(text, i + 1, i + Len(needle)) = needle

\* the text of a sequence of lines, each ended by a line break
RECURSIVE JoinLines(_)
JoinLines(ls) ==
    IF ls = <<>> THEN <<>> ELSE Head(ls) \o <<NL>> \o JoinLines(Tail(ls))

(***************************************************************************)
(* The world the scripts act on                                            *)
(***************************************************************************)
NoFiles == [p \in {} |-> <<>>]

EmptyTree == [files |-> NoFiles, dirs |-> {}]

World(f, d) == [files |-> f, dirs |-> d, out |-> <<>>, cmds |-> <<>>, status |-> "ok"]

Tree(w) == [files |-> w.files, dirs |-> w.dirs]

IsFile(w, p) == p \in DOMAIN w.files

\* Path.exists()
Exists(w, p) == p \in DOMAIN w.files \/ p \in w.dirs

\* print(...)
Emit(w, tag, p) == [w EXCEPT !.out = Append(@, <<tag, p>>)]

\* Path.write_text(content)
write_text(w, p, content) == [w EXCEPT !.files = (p :> content) @@ @]

\* open("a").write(content): creates the file when there is none
append_text(w, p, content) ==
    [w EXCEPT !.files = (p :> ((IF p \in DOMAIN @ THEN @[p] ELSE <<>>) \o content)) @@ @]

\* Path.mkdir(parents=True, exist_ok=True)
mkdir(w, d) == [w EXCEPT !.dirs = @ \cup Ancestors(d)]

(***************************************************************************)
(* setup_project.py                                                        *)
(***************************************************************************)
\* TEMPLATES[".env"]
ENV_TEMPLATE ==
    << "FLASK_ENV", "=", "development", NL,
       "SECRET_KEY", "=", "your-secret-key", NL,
       "DATABASE_URL", "=", "sqlite:///instance/app.db", NL >>

\* TEMPLATES["app/__init__.py"]: the application factory of setup_project
APP_FACTORY_TEMPLATE == << "TEMPLATES[app/__init__.py]" >>

\* TEMPLATES, in insertion order
TEMPLATES ==
    << [path |-> <<".gitignore">>,                        content |-> <<"TEMPLATES[.gitignore]">>],
       [path |-> <<".env">>,                              content |-> ENV_TEMPLATE],
       [path |-> <<"run.py">>,                            content |-> <<"TEMPLATES[run.py]">>],
       [path |-> <<"app", "__init__.py">>,                content |-> APP_FACTORY_TEMPLATE],
       [path |-> <<"app", "common", "utils.py">>,         content |-> <<"TEMPLATES[app/common/utils.py]">>],
       [path |-> <<"app", "common", "filters.py">>,       content |-> <<"TEMPLATES[app/common/filters.py]">>],
       [path |-> <<"app", "common", "globals.py">>,       content |-> <<"TEMPLATES[app/common/globals.py]">>],
       [path |-> <<"app", "templates", "layout.html">>,   content |-> <<"TEMPLATES[app/templates/layout.html]">>],
       [path |-> <<"app", "static", "css", "style.css">>, content |-> <<"TEMPLATES[app/static/css/style.css]">>],
       [path |-> <<"app", "static", "js", "script.js">>,  content |-> <<"TEMPLATES[app/static/js/script.js]">>],
       [path |-> <<"app", "pages", "index", "view.py">>,  content |-> <<"TEMPLATES[app/pages/index/view.py]">>],
       [path |-> <<"app", "pages", "index", "index.html">>, content |-> <<"TEMPLATES[app/pages/index/index.html]">>],
       [path |-> <<"add_page.py">>,                       content |-> <<"TEMPLATES[add_page.py]">>] >>

\* str(directory).replace(os.sep, "."): "app.pages.index"
RECURSIVE Dotted(_)
Dotted(d) ==
    IF Len(d) = 1 THEN d[1] ELSE Dotted(Parent(d)) \o "." \o Last(d)

\* f"# {module_path} package\n"
MarkerContent(d) == << "# " \o Dotted(d) \o " package", NL >>

InitPy(d) == Append(d, "__init__.py")

\* faulty variant: writes whether or not the file is there
project_create_file_always(w, path, content) ==
    IF w.status # "ok" THEN w ELSE
    LET w1 == IF Len(path) > 1 THEN mkdir(w, Parent(path)) ELSE w
    IN  Emit(write_text(w1, path, content), "[Create]", path)

\* create_file(path, content) of setup_project.py: write only when absent
project_create_file(w, path, content) ==
    IF w.status # "ok" THEN w ELSE
    LET w1 == IF Len(path) > 1 THEN mkdir(w, Parent(path)) ELSE w
    IN  IF ~Exists(w1, path)
        THEN Emit(write_text(w1, path, content), "[Create]", path)
        ELSE Emit(w1, "[Skip]", path)

\* faulty variant: writes the marker over whatever is there
create_init_py_overwrite(w, directory) ==
    IF w.status # "ok" THEN w
    ELSE IF directory \in w.dirs
    THEN Emit(write_text(w, InitPy(directory), MarkerContent(directory)),
              "[Create]", InitPy(directory))
    ELSE [w EXCEPT !.status = "raised"]

\* create_init_py(directory): write_text raises FileNotFoundError when the
\* directory is missing
create_init_py(w, directory) ==
    IF w.status # "ok" THEN w
    ELSE IF ~Exists(w, InitPy(directory))
    THEN IF directory \in w.dirs
         THEN Emit(write_text(w, InitPy(directory), MarkerContent(directory)),
                   "[Create]", InitPy(directory))
         ELSE [w EXCEPT !.status = "raised"]
    ELSE Emit(w, "[Skip]", InitPy(directory))

\* for i in range(1, len(target.parts)): create_init_py on each existing prefix
RECURSIVE MarkPrefixes(_, _, _)
MarkPrefixes(w, target, i) ==
    IF w.status # "ok" \/ i >= Len(target) THEN w
    ELSE LET partial == SubSeq(target, 1, i)
         IN  MarkPrefixes(IF partial \in w.dirs THEN create_init_py(w, partial) ELSE w,
                          target, i + 1)

\* one iteration of the loop over TEMPLATES.items()
ProcessEntry(w, e) ==
    LET w1 == project_create_file(w, e.path, e.content)
    IN  IF e.path[1] = "app" THEN MarkPrefixes(w1, e.path, 1) ELSE w1

RECURSIVE ProcessEntries(_, _)
ProcessEntries(w, es) ==
    IF w.status # "ok" \/ es = <<>> THEN w ELSE ProcessEntries(ProcessEntry(w, Head(es)), Tail(es))

REQUIREMENTS_TXT == <<"requirements.txt">>

PROJECT_REQUIREMENTS ==
    << "Flask", "==", "3.1.0", NL,
       "click", "==", "8.1.8", NL,
       "dotenv", "==", "0.9.9", NL,
       "python-dotenv", "==", "1.1.0", NL >>

\* the statements of setup_project after the loop
FinishProject(w) ==
    LET w1 == create_init_py(w, <<"app">>)
        w2 == create_init_py(w1, <<"app", "pages">>)
        w3 == create_init_py(w2, <<"app", "pages", "index">>)
        w4 == create_init_py(w3, <<"app", "common">>)
    IN  IF w4.status # "ok" THEN w4
        ELSE IF ~Exists(w4, REQUIREMENTS_TXT)
        THEN Emit(write_text(w4, REQUIREMENTS_TXT, PROJECT_REQUIREMENTS),
                  "[Create]", REQUIREMENTS_TXT)
        ELSE Emit(w4, "[Skip]", REQUIREMENTS_TXT)

\* setup_project(), the entries processed in the order `entries`
SetupProjectIn(w, entries) == FinishProject(ProcessEntries(w, entries))

setup_project(w) == SetupProjectIn(w, TEMPLATES)

(***************************************************************************)
(* setup_db.py: the two mergers                                            *)
(***************************************************************************)
ENV_PATH == <<".env">>

\* `extra` of ensure_env_keys, in insertion order
EnvExtra ==
    << <<"MYSQL_USER", "root">>,
       <<"MYSQL_PASSWORD", "password">>,
       <<"MYSQL_HOST", "localhost">>,
       <<"MYSQL_DBNAME", "test">>,
       <<"SUPABASE_USER", "your_user">>,
       <<"SUPABASE_PASSWORD", "your_password">>,
       <<"SUPABASE_HOST", "your-host.supabase.co">>,
       <<"SUPABASE_DBNAME", "your_database">> >>

\* line.lstrip().startswith("#")
IsComment(line) == LStrip(line) # <<>> /\ Head(LStrip(line)) = "#"

\* the set `existing` of ensure_env_keys: line.split("=")[0].strip() of every
\* line that holds a "=" and is no comment
EnvExisting(text) ==
    LET ls == splitlines(text)
    IN  { Strip(BeforeFirst(ls[i], "=")) :
            i \in { j \in 1..Len(ls) : IndexOf(ls[j], "=") # 0 /\ ~IsComment(ls[j]) } }

\* the list `additions`: f"{k}={v}\n" for every k of `extra` not in `existing`
RECURSIVE EnvAdditions(_, _)
EnvAdditions(extra, existing) ==
    IF extra = <<>> THEN <<>>
    ELSE (IF <<Head(extra)[1]>> \notin existing
          THEN <<Head(extra)[1], "=", Head(extra)[2], NL>>
          ELSE <<>>)
         \o EnvAdditions(Tail(extra), existing)

ensure_env_keys(w) ==
    IF ~Exists(w, ENV_PATH)
    THEN Emit(w, "[Error]", ENV_PATH)
    ELSE LET additions == EnvAdditions(EnvExtra, EnvExisting(w.files[ENV_PATH]))
         IN  IF additions # <<>>
             THEN Emit(append_text(w, ENV_PATH, additions), "[Update]", ENV_PATH)
             ELSE Emit(w, "[Skip]", ENV_PATH)

\* sorted(required): the three required lines in string order
RequiredSorted ==
    << <<"flask_migrate", "==", "4.1.0">>,
       <<"flask_sqlalchemy", "==", "3.1.1">>,
       <<"sqlalchemy", "==", "2.0.40">> >>

\* the set `required`: the full requirement strings
Required == { RequiredSorted[i] : i \in 1..Len(RequiredSorted) }

\* the set `existing` of update_requirements: line.strip().split("==")[0] of
\* every line that is neither blank nor a comment
ReqExisting(text) ==
    LET ls == splitlines(text)
    IN  { BeforeFirst(Strip(ls[i]), "==") :
            i \in { j \in 1..Len(ls) :
                      Strip(ls[j]) # <<>> /\ Head(Strip(ls[j])) # "#" } }

\* required - existing
ReqMissing(text) == Required \ ReqExisting(text)

\* sorted(pkgs) written one per line
ReqLines(pkgs) ==
    JoinLines(SelectSeq(RequiredSorted, LAMBDA r : r \in pkgs))

update_requirements(w, requirements_path) ==
    IF ~Exists(w, requirements_path)
    THEN write_text(Emit(w, "[Create]", requirements_path),
                    requirements_path, ReqLines(Required))
    ELSE LET missing == ReqMissing(w.files[requirements_path])
         IN  IF missing = {}
             THEN Emit(w, "[Skip]", requirements_path)
             ELSE Emit(append_text(w, requirements_path, ReqLines(missing)),
                       "[Update]", requirements_path)

(***************************************************************************)
(* setup_db.py: templates, create_file, the migration commands, setup_db   *)
(***************************************************************************)
APP_DIR == <<"app">>
INSTANCE_DIR == <<"instance">>
MIGRATIONS_DIR == <<"migrations">>

DB_PY == << "DB_PY" >>

\* "# app.models package\n"
MODELS_INIT == << "# app.models package", NL >>

USER_MODEL == << "USER_MODEL" >>

\* f"from app.models.{model_name} import {class_name}\n"
ImportLine(model_name, class_name) ==
    << "from app.models.", model_name, " import ", class_name, NL >>

\* its second line is "from app.models.user import User\n"
DBTEST_VIEW ==
    << "from flask import Blueprint, render_template", NL >>
    \o ImportLine("user", "User")
    \o << NL, "DBTEST_VIEW[3:]" >>

DBTEST_HTML == << "DBTEST_HTML" >>

ADD_MODEL == << "ADD_MODEL" >>

\* the application factory setup_db writes over app/__init__.py
APP_INIT == << "APP_INIT" >>

\* create_file(path, content, overwrite=...) of setup_db.py
create_file(w, path, content, overwrite) ==
    LET w1 == IF Len(path) > 1 THEN mkdir(w, Parent(path)) ELSE w
    IN  IF Exists(w1, path) /\ ~overwrite
        THEN Emit(w1, "[Skip]", path)
        ELSE Emit(write_text(w1, path, content),
                  IF overwrite THEN "[Overwrite]" ELSE "[Create]", path)

\* subprocess.run([...], check=True): the command is started and exits with `code`
Subprocess(w, cmd, code) == [w EXCEPT !.cmds = Append(@, <<cmd, code>>)]

\* faulty variant: the exit codes are not checked (check=False), every command runs
run_flask_db_commands_unchecked(w, exits) ==
    LET w0 == Emit(w, "[Step]", <<>>)
        w1 == Subprocess(w0, "flask db init", exits[1])
        w2 == Subprocess(Emit(w1, "[OK]", <<"flask db init">>), "flask db migrate", exits[2])
        w3 == Subprocess(Emit(w2, "[OK]", <<"flask db migrate">>), "flask db upgrade", exits[3])
    IN  Emit(w3, "[OK]", <<"flask db upgrade">>)

\* run_flask_db_commands(): exits[i] is the exit code the i-th command would give
run_flask_db_commands(w, exits) ==
    LET w0 == Emit(w, "[Step]", <<>>)
        w1 == Subprocess(w0, "flask db init", exits[1])
        w2 == Subprocess(Emit(w1, "[OK]", <<"flask db init">>), "flask db migrate", exits[2])
        w3 == Subprocess(Emit(w2, "[OK]", <<"flask db migrate">>), "flask db upgrade", exits[3])
    IN  IF exits[1] # 0 THEN Emit(w1, "[Error]", <<"flask db">>)
        ELSE IF exits[2] # 0 THEN Emit(w2, "[Error]", <<"flask db">>)
        ELSE IF exits[3] # 0 THEN Emit(w3, "[Error]", <<"flask db">>)
        ELSE Emit(w3, "[OK]", <<"flask db upgrade">>)

INIT_PY == <<"app", "__init__.py">>

\* init_py.with_suffix(".py.bak")
INIT_BAK == <<"app", "__init__.py.bak">>

\* faulty variant: the copy is taken after the overwrite
OverwriteThenBackup(w) ==
    LET w1 == create_file(w, INIT_PY, APP_INIT, TRUE)
    IN  IF Exists(w, INIT_PY)
        THEN Emit(write_text(w1, INIT_BAK, w1.files[INIT_PY]), "[Backup]", INIT_PY)
        ELSE w1

\* lines 288-294: back app/__init__.py up when it exists, then overwrite it
BackupAndOverwrite(w) ==
    LET w1 == IF Exists(w, INIT_PY)
              THEN Emit(write_text(w, INIT_BAK, w.files[INIT_PY]), "[Backup]", INIT_PY)
              ELSE w
    IN  create_file(w1, INIT_PY, APP_INIT, TRUE)

\* lines 307-315: the connection test; db is what the environment gives:
\* "unset" (no DATABASE_URL), "ok" (connects) or "fail" (the driver raises)
ConnectionTest(w, db) ==
    IF db = "unset" THEN w
    ELSE IF db = "ok" THEN Emit(w, "[OK]", <<"DB connection">>)
    ELSE Emit(w, "[Warning]", <<"DB connection">>)

setup_db(w, db, exits) ==
    LET w0  == Emit(w, "[Start]", <<>>)
        w1  == ensure_env_keys(w0)
        w2  == update_requirements(w1, REQUIREMENTS_TXT)
        w3  == [w2 EXCEPT !.dirs = @ \cup {INSTANCE_DIR, MIGRATIONS_DIR}]
        w4  == create_file(w3, <<"app", "common", "db.py">>, DB_PY, FALSE)
        w5  == create_file(w4, <<"app", "models", "__init__.py">>, MODELS_INIT, FALSE)
        w6  == create_file(w5, <<"app", "models", "user.py">>, USER_MODEL, FALSE)
        w7  == BackupAndOverwrite(w6)
        w8  == create_file(w7, <<"app", "pages", "dbtest", "view.py">>, DBTEST_VIEW, FALSE)
        w9  == create_file(w8, <<"app", "pages", "dbtest", "index.html">>, DBTEST_HTML, FALSE)
        w10 == create_file(w9, <<"add_model.py">>, ADD_MODEL, FALSE)
        w11 == ConnectionTest(w10, db)
        w12 == Emit(w11, "[Done]", <<>>)
    IN  run_flask_db_commands(w12, exits)

(***************************************************************************)
(* Case conversion of the names the generators are given                   *)
(***************************************************************************)
\* str.lower()
Lower(x) ==
    CASE x = "Post" -> "post"
      [] x = "User" -> "user"
      [] x = "Tag"  -> "tag"
      [] OTHER      -> x

\* str.capitalize()
Capitalize(x) ==
    CASE x = "post"  -> "Post"
      [] x = "user"  -> "User"
      [] x = "tag"   -> "Tag"
      [] x = "blog"  -> "Blog"
      [] x = "posts" -> "Posts"
      [] x = "new"   -> "New"
      [] x = "index" -> "Index"
      [] OTHER       -> x

\* sep.join(parts) as one string
RECURSIVE Join(_, _)
Join(parts, sep) ==
    IF parts = <<>> THEN ""
    ELSE IF Len(parts) = 1 THEN parts[1]
    ELSE parts[1] \o sep \o Join(Tail(parts), sep)

(***************************************************************************)
(* add_model.py (the ADD_MODEL template of setup_db.py)                    *)
(***************************************************************************)
MODELS_DIR == <<"app", "models">>
MODELS_INIT_PATH == <<"app", "models", "__init__.py">>
DBTEST_VIEW_PATH == <<"app", "pages", "dbtest", "view.py">>

\* ask(msg, default): input(...).strip() or default; an answer is one word
\* between blanks, or nothing
ask(answer, default) ==
    IF Strip(answer) = <<>> THEN default ELSE Strip(answer)[1]

\* MODELS_DIR / f"{table}.py"
ModelPath(table) == Append(MODELS_DIR, table \o ".py")

\* the lines appended for the columns
RECURSIVE ColumnLines(_)
ColumnLines(columns) ==
    IF columns = <<>> THEN <<>>
    ELSE << "    ", Head(columns)[1], " = db.Column(db.", Head(columns)[2], ")", NL >>
         \o ColumnLines(Tail(columns))

\* ":".join(f"{{self.{f}}}" for f in repr_fields)
RECURSIVE ReprBody(_)
ReprBody(fields) ==
    IF fields = <<>> THEN <<>>
    ELSE << "{self.", Head(fields), "}" >>
         \o (IF Len(fields) > 1 THEN <<":">> ELSE <<>>)
         \o ReprBody(Tail(fields))

ColumnNames(columns) == [i \in 1..Len(columns) |-> columns[i][1]]

\* ''.join(lines) of main
ModelSource(table, class_name, columns) ==
    << "from app.common.db import db", NL, NL,
       "class ", class_name, "(db.Model):", NL,
       "    __tablename__ = '", table, "'", NL, NL,
       "    id = db.Column(db.Integer, primary_key=True)", NL >>
    \o ColumnLines(columns)
    \o << NL, "    def __repr__(self):", NL,
          "        return f'<", class_name, " " >>
    \o ReprBody(<<"id">> \o ColumnNames(columns))
    \o << ">'", NL >>

\* append_imports: MODELS_INIT.read_text() raises FileNotFoundError when the
\* file is missing; DBTEST_VIEW is guarded by exists()
append_imports(w, model_name, class_name) ==
    LET import_line == ImportLine(model_name, class_name)
    IN  IF ~IsFile(w, MODELS_INIT_PATH)
        THEN [w EXCEPT !.status = "raised"]
        ELSE LET w1 == IF ~Contains(w.files[MODELS_INIT_PATH], import_line)
                       THEN Emit(append_text(w, MODELS_INIT_PATH, import_line),
                                 "[Update]", MODELS_INIT_PATH)
                       ELSE w
             IN  IF Exists(w1, DBTEST_VIEW_PATH)
                    /\ ~Contains(w1.files[DBTEST_VIEW_PATH], import_line)
                 THEN Emit(write_text(w1, DBTEST_VIEW_PATH,
                                      import_line \o w1.files[DBTEST_VIEW_PATH]),
                           "[Update]", DBTEST_VIEW_PATH)
                 ELSE w1

\* faulty variant: CalledProcessError is not caught
auto_migrate_uncaught(w, exits) ==
    LET w0 == Emit(w, "[Step]", <<>>)
        w1 == Subprocess(w0, "flask db migrate", exits[1])
        w2 == Subprocess(w1, "flask db upgrade", exits[2])
    IN  IF exits[1] # 0 THEN [w1 EXCEPT !.status = "raised"]
        ELSE IF exits[2] # 0 THEN [w2 EXCEPT !.status = "raised"]
        ELSE Emit(w2, "[OK]", <<"migration">>)

\* auto_migrate: CalledProcessError is caught and reported
auto_migrate(w, exits) ==
    LET w0 == Emit(w, "[Step]", <<>>)
        w1 == Subprocess(w0, "flask db migrate", exits[1])
        w2 == Subprocess(w1, "flask db upgrade", exits[2])
    IN  IF exits[1] # 0 THEN Emit(w1, "[Error]", <<"migration">>)
        ELSE IF exits[2] # 0 THEN Emit(w2, "[Error]", <<"migration">>)
        ELSE Emit(w2, "[OK]", <<"migration">>)

\* faulty variant: no check that the model file exists
add_model_main_overwrite(w, answer, columns, exits) ==
    LET table      == Lower(ask(answer, ""))
        class_name == Capitalize(table)
        fpath      == ModelPath(table)
        w1         == mkdir(w, MODELS_DIR)
        w2         == Emit(write_text(w1, fpath, ModelSource(table, class_name, columns)),
                           "[OK]", fpath)
        w3         == append_imports(w2, table, class_name)
    IN  IF table = "" THEN Emit(w, "(empty table name)", <<>>)
        ELSE IF w3.status # "ok" THEN w3
        ELSE auto_migrate(w3, exits)

\* main() of add_model.py: `answer` is what is typed for the table name,
\* `columns` the (name, type) pairs typed after it
add_model_main(w, answer, columns, exits) ==
    LET table      == Lower(ask(answer, ""))
        class_name == Capitalize(table)
        fpath      == ModelPath(table)
        w1         == mkdir(w, MODELS_DIR)
        w2         == Emit(write_text(w1, fpath, ModelSource(table, class_name, columns)),
                           "[OK]", fpath)
        w3         == append_imports(w2, table, class_name)
    IN  IF table = "" THEN Emit(w, "(empty table name)", <<>>)
        ELSE IF Exists(w1, fpath) THEN Emit(w1, "[Error]", fpath)
        ELSE IF w3.status # "ok" THEN w3
        ELSE auto_migrate(w3, exits)

(***************************************************************************)
(* add_page.py (the "add_page.py" template of setup_project.py)            *)
(***************************************************************************)
PAGES_ROOT == <<"app", "pages">>

SLASH == "/"

RECURSIVE LStripSlash(_)
LStripSlash(s) == IF s # <<>> /\ Head(s) = SLASH THEN LStripSlash(Tail(s)) ELSE s

RECURSIVE RStripSlash(_)
RStripSlash(s) == IF s # <<>> /\ Last(s) = SLASH THEN RStripSlash(Parent(s)) ELSE s

\* the word between two separators: "" when they are adjacent
Word(s) == IF s = <<>> THEN "" ELSE s[1]

\* str.split('/')
RECURSIVE SplitSlash(_)
SplitSlash(s) ==
    LET i == IndexOf(s, SLASH)
    IN  IF i = 0 THEN << Word(s) >>
        ELSE << Word(SubSeq(s, 1, i - 1)) >> \o SplitSlash(SubSeq(s, i + 1, Len(s)))

\* path.strip('/').split('/')
PageParts(path) == SplitSlash(RStripSlash(LStripSlash(path)))

\* Path('app/pages') / Path(*parts): empty parts vanish
PageDir(parts) == PAGES_ROOT \o SelectSeq(parts, LAMBDA x : x # "")

ViewContent(parts) ==
    << "from flask import Blueprint, render_template", NL, NL,
       "bp = Blueprint('", Join(parts, "_"), "', __name__, url_prefix='",
       "/" \o Join(parts, "/"), "')", NL, NL,
       "render_template:", Join(parts, "/") \o "/index.html",
       " title=", Capitalize(Last(parts)) \o " Page", NL >>

PAGE_HTML == << "add_page.html_content" >>

\* faulty variant: the walk writes the markers from the pages root down
RECURSIVE create_init_pys_root_first(_, _)
create_init_pys_root_first(w, current) ==
    IF current = PAGES_ROOT THEN w
    ELSE LET init_path == InitPy(current)
             w1 == create_init_pys_root_first(w, Parent(current))
         IN  IF ~Exists(w1, init_path)
             THEN Emit(write_text(w1, init_path, MarkerContent(current)),
                       "[Create]", init_path)
             ELSE w1

\* create_init_pys_for_page: from the page directory up to the pages root
RECURSIVE create_init_pys_for_page(_, _)
create_init_pys_for_page(w, current) ==
    IF current = PAGES_ROOT THEN w
    ELSE LET init_path == InitPy(current)
             w1 == IF ~Exists(w, init_path)
                   THEN Emit(write_text(w, init_path, MarkerContent(current)),
                             "[Create]", init_path)
                   ELSE w
         IN  create_init_pys_for_page(w1, Parent(current))

create_page(w, path) ==
    LET parts         == PageParts(path)
        page_dir      == PageDir(parts)
        view_path     == Append(page_dir, "view.py")
        template_path == Append(page_dir, "index.html")
        w1 == mkdir(w, page_dir)
        w2 == Emit(write_text(w1, view_path, ViewContent(parts)), "[Create]", view_path)
        w3 == Emit(write_text(w2, template_path, PAGE_HTML), "[Create]", template_path)
    IN  IF Exists(w, view_path) \/ Exists(w, template_path)
        THEN Emit(w, "[Warning]", page_dir)
        ELSE create_init_pys_for_page(w3, page_dir)

(***************************************************************************)
(* Initial trees and inputs                                                *)
(***************************************************************************)
\* the tree setup_project leaves in an empty directory
ProjectTree == Tree(setup_project(World(NoFiles, {})))

\* the tree setup_db leaves after it
DbTree == Tree(setup_db(World(ProjectTree.files, ProjectTree.dirs), "ok", <<0, 0, 0>>))

\* a tree written by hand: its own application factory, a .env whose last
\* line has no line break, a model and a page of which only parts are there
HandFiles ==
    (INIT_PY :> <<"hand-written factory">>)
    @@ (ENV_PATH :> <<"SECRET_KEY", "=", "x">>)
    @@ (REQUIREMENTS_TXT :> <<"sqlalchemy", "==", "2.0.40", NL>>)
    @@ (<<"app", "models", "post.py">> :> <<"hand-written model">>)
    @@ (<<"app", "pages", "blog", "__init__.py">> :> <<"hand-written marker">>)
    @@ (<<"app", "pages", "blog", "posts", "index.html">> :> <<"hand-written page">>)

HandTree ==
    [files |-> HandFiles,
     dirs  |-> UNION { Ancestors(Parent(p)) : p \in { q \in DOMAIN HandFiles : Len(q) > 1 } }]

InitTrees == { EmptyTree, ProjectTree, DbTree, HandTree }

ExitCodes == {0, 1}

DbStates == { "unset", "ok", "fail" }

\* what is typed for the table name
Answers == { <<>>, <<"post">>, <<SP, "Post", SP>>, <<"user">>, <<"tag">> }

ColumnLists ==
    { <<>>,
      << <<"title", "String(255)">> >>,
      << <<"title", "String(255)">>, <<"views", "Integer">> >> }

\* the argument of add_page.py
PagePaths ==
    { <<"blog">>,
      <<"blog", SLASH, "posts">>,
      <<SLASH, "blog", SLASH, "posts", SLASH>>,
      <<"blog", SLASH, "posts", SLASH, "new">>,
      <<"index">> }

NoOp == [name |-> "", path |-> <<>>, table |-> <<>>, columns |-> <<>>]

Op(name) == [NoOp EXCEPT !.name = name]

InitFrom(tree) ==
    /\ files = tree.files
    /\ dirs = tree.dirs
    /\ out = <<>>
    /\ cmds = <<>>
    /\ status = "ok"
    /\ op = NoOp
    /\ prev = tree
    /\ prevOp = ""
    /\ start = tree
    /\ nops = 0
    /\ pending = {}
    /\ first_app = <<>>

\* one whole run of a script: the world it leaves becomes the state
Ran(w, o) ==
    /\ nops < MaxOps
    /\ files' = w.files
    /\ dirs' = w.dirs
    /\ out' = w.out
    /\ cmds' = w.cmds
    /\ status' = w.status
    /\ op' = o
    /\ prev' = [files |-> files, dirs |-> dirs]
    /\ prevOp' = op.name
    /\ nops' = nops + 1
    /\ UNCHANGED <<start, pending, first_app>>

Now == World(files, dirs)

(***************************************************************************)
(* Actions: one per script run                                             *)
(***************************************************************************)
SetupProject == Ran(setup_project(Now), Op("setup_project"))

SetupDb ==
    \E db \in DbStates : \E exits \in [1..3 -> ExitCodes] :
        Ran(setup_db(Now, db, exits), Op("setup_db"))

EnsureEnvKeys == Ran(ensure_env_keys(Now), Op("ensure_env_keys"))

UpdateRequirements ==
    Ran(update_requirements(Now, REQUIREMENTS_TXT), Op("update_requirements"))

CreatePage ==
    \E path \in PagePaths :
        Ran(create_page(Now, path), [Op("create_page") EXCEPT !.path = path])

AddModel ==
    \E answer \in Answers : \E columns \in ColumnLists : \E exits \in [1..2 -> ExitCodes] :
        Ran(add_model_main(Now, answer, columns, exits),
            [Op("add_model") EXCEPT !.table = answer, !.columns = columns])

Init == \E tree \in InitTrees : InitFrom(tree)

Next ==
    \/ SetupProject
    \/ SetupDb
    \/ EnsureEnvKeys
    \/ UpdateRequirements
    \/ CreatePage
    \/ AddModel

Spec == Init /\ [][Next]_vars

(***************************************************************************)
(* The mergers on arbitrary small files                                    *)
(***************************************************************************)
SeqsUpTo(S, n) == UNION { [1..k -> S] : k \in 0..n }

\* the text of the lines ls; the last line has its line break only when `final`
TextOf(ls, final) ==
    IF final \/ ls = <<>> THEN JoinLines(ls) ELSE Parent(JoinLines(ls))

TextsOver(Lines, n) ==
    { TextOf(ls, final) : ls \in SeqsUpTo(Lines, n), final \in BOOLEAN }

EnvFileLines ==
    { <<"SECRET_KEY", "=", "x">>,
      <<"MYSQL_USER", "=", "admin">>,
      <<"#", "MYSQL_HOST", "=", "h">>,
      <<SP, "SUPABASE_USER", SP, "=", SP, "u">>,
      <<"SUPABASE_HOST", "=", "a", "=", "b">>,
      <<"MYSQL_DBNAME">>,
      <<>> }

ReqFileLines ==
    { <<"sqlalchemy", "==", "2.0.40">>,
      <<"sqlalchemy", "==", "1.4.0">>,
      <<SP, "flask_migrate", "==", "4.1.0", SP>>,
      <<"flask_sqlalchemy">>,
      <<"#", "sqlalchemy">>,
      <<"Flask", "==", "3.1.0">>,
      <<>> }

OneFile(p, text) == [files |-> (p :> text), dirs |-> {}]

InitEnv ==
    \E tree \in {EmptyTree} \cup { OneFile(ENV_PATH, t) : t \in TextsOver(EnvFileLines, MaxLines) } :
        InitFrom(tree)

SpecEnv == InitEnv /\ [][EnsureEnvKeys]_vars

InitReq ==
    \E tree \in {EmptyTree}
                \cup { OneFile(REQUIREMENTS_TXT, t) : t \in TextsOver(ReqFileLines, MaxLines) } :
        InitFrom(tree)

SpecReq == InitReq /\ [][UpdateRequirements]_vars

(***************************************************************************)
(* One run of setup_project with the TEMPLATES entries in any order        *)
(***************************************************************************)
InitPerm ==
    /\ files = NoFiles
    /\ dirs = {}
    /\ out = <<>>
    /\ cmds = <<>>
    /\ status = "ok"
    /\ op = NoOp
    /\ prev = EmptyTree
    /\ prevOp = ""
    /\ start = EmptyTree
    /\ nops = 0
    /\ pending = 1..Len(TEMPLATES)
    /\ first_app = <<>>

\* one iteration of the loop, on any entry not yet processed; standard output
\* is not kept here
ProcessOne ==
    \E i \in pending :
        LET w == ProcessEntry(Now, TEMPLATES[i])
        IN  /\ files' = w.files
            /\ dirs' = w.dirs
            /\ pending' = pending \ {i}
            /\ first_app' = IF first_app = <<>> /\ TEMPLATES[i].path[1] = "app"
                            THEN TEMPLATES[i].path
                            ELSE first_app
            /\ UNCHANGED <<out, cmds, status, op, prev, prevOp, start, nops>>

\* the statements after the loop
FinishRun ==
    /\ pending = {}
    /\ nops = 0
    /\ LET w == FinishProject(Now)
       IN  /\ files' = w.files
           /\ dirs' = w.dirs
           /\ out' = w.out
           /\ status' = w.status
    /\ op' = Op("setup_project")
    /\ nops' = 1
    /\ UNCHANGED <<cmds, prev, prevOp, start, pending, first_app>>

NextPerm == ProcessOne \/ FinishRun

SpecPerm == InitPerm /\ [][NextPerm]_vars

(***************************************************************************)
(* Claims                                                                  *)
(***************************************************************************)
LastRan(name) == nops > 0 /\ op.name = name

Unchanged(p) == p \in DOMAIN prev.files /\ p \in DOMAIN files /\ files[p] = prev.files[p]

\* the lines of `text` that name package n by its bare name: n alone or n==version
LinesNaming(text, n) ==
    LET ls == splitlines(text)
    IN  { i \in 1..Len(ls) : BeforeFirst(Strip(ls[i]), "==") = <<n>> }

RequiredNames == { RequiredSorted[i][1] : i \in 1..Len(RequiredSorted) }

\* C1: update_requirements never duplicates a required package: when a line
\* of the existing requirements.txt names the package by its bare name, the
\* call adds no further line for it.
C1_NoDuplicatePackage ==
    (LastRan("update_requirements") /\ REQUIREMENTS_TXT \in DOMAIN prev.files) =>
        \A n \in RequiredNames :
            LinesNaming(prev.files[REQUIREMENTS_TXT], n) # {} =>
                Cardinality(LinesNaming(files[REQUIREMENTS_TXT], n))
                    = Cardinality(LinesNaming(prev.files[REQUIREMENTS_TXT], n))

\* C2: a run of setup_db on the tree a previous run of setup_db left changes
\* no file but the backup app/__init__.py.bak.
C2_RerunChangesNothing ==
    (LastRan("setup_db") /\ prevOp = "setup_db") =>
        /\ DOMAIN files \ {INIT_BAK} = DOMAIN prev.files \ {INIT_BAK}
        /\ \A p \in DOMAIN prev.files \ {INIT_BAK} : Unchanged(p)

\* the lines of the new text after the lines of the old one
AppendedLines(old, new) ==
    SubSeq(splitlines(new), Len(splitlines(old)) + 1, Len(splitlines(new)))

\* C3: ensure_env_keys keeps every line of an existing .env verbatim, in
\* order and ahead of what it appends, and appends exactly one line
\* KEY=default for each of the eight keys that was absent, none for the others.
C3_EnvAddIfAbsent ==
    (LastRan("ensure_env_keys") /\ ENV_PATH \in DOMAIN prev.files) =>
        LET old   == prev.files[ENV_PATH]
            new   == files[ENV_PATH]
            added == AppendedLines(old, new)
        IN  /\ Len(splitlines(new)) >= Len(splitlines(old))
            /\ SubSeq(splitlines(new), 1, Len(splitlines(old))) = splitlines(old)
            /\ \A k \in 1..Len(EnvExtra) :
                 Cardinality({ i \in 1..Len(added) :
                                 added[i] = <<EnvExtra[k][1], "=", EnvExtra[k][2]>> })
                   = IF <<EnvExtra[k][1]>> \in EnvExisting(old) THEN 0 ELSE 1
            /\ \A i \in 1..Len(added) :
                 \E k \in 1..Len(EnvExtra) :
                    added[i] = <<EnvExtra[k][1], "=", EnvExtra[k][2]>>

HasLine(tag) == \E i \in 1..Len(out) : out[i][1] = tag

\* C4: the second of two successive runs of setup_project on an initially
\* empty directory creates, modifies and deletes nothing.
C4_SetupProjectIdempotent ==
    (nops = 2 /\ op.name = "setup_project" /\ prevOp = "setup_project" /\ start = EmptyTree) =>
        /\ files = prev.files
        /\ dirs = prev.dirs
        /\ ~HasLine("[Create]")
        /\ status = "ok"

C4_Witness ==
    /\ nops = 2 /\ op.name = "setup_project" /\ prevOp = "setup_project" /\ start = EmptyTree
    /\ \A i \in 1..Len(TEMPLATES) :
         TEMPLATES[i].path \in DOMAIN files /\ files[TEMPLATES[i].path] = TEMPLATES[i].content
    /\ InitPy(<<"app", "static", "css">>) \in DOMAIN files

PermDone == pending = {} /\ nops = 1

\* C5 as stated: whatever the order of the entries, the run leaves the files
\* the insertion order leaves.
C5_OrderHasNoEffect == PermDone => files = ProjectTree.files

\* C5 amended: the order decides app/__init__.py and nothing else: it holds
\* the application factory when its entry is the first one under app/ to be
\* processed, and the package marker "# app package" otherwise.
C5_OrderDecidesOnlyAppInit ==
    PermDone =>
        /\ DOMAIN files = DOMAIN ProjectTree.files
        /\ \A p \in DOMAIN files \ {INIT_PY} : files[p] = ProjectTree.files[p]
        /\ files[INIT_PY] = IF first_app = INIT_PY
                            THEN APP_FACTORY_TEMPLATE
                            ELSE MarkerContent(APP_DIR)

C5_Witness ==
    /\ PermDone
    /\ first_app = <<"app", "pages", "index", "view.py">>
    /\ files[INIT_PY] = MarkerContent(APP_DIR)

\* the directories from below the pages root down to the page directory
Between(page_dir) == { SubSeq(page_dir, 1, k) : k \in (Len(PAGES_ROOT) + 1)..Len(page_dir) }

OpPageDir == PageDir(PageParts(op.path))

\* create_page ran and did not refuse
PageGenerated ==
    /\ LastRan("create_page")
    /\ Append(OpPageDir, "view.py") \notin DOMAIN prev.files
    /\ Append(OpPageDir, "index.html") \notin DOMAIN prev.files

CreatedAt(p) == { i \in 1..Len(out) : out[i] = <<"[Create]", p>> }

\* every directory of the page path has a marker; one that was there is left
\* alone, one that was not is written once
MarkersEnsured ==
    \A d \in Between(OpPageDir) :
        /\ InitPy(d) \in DOMAIN files
        /\ InitPy(d) \in DOMAIN prev.files =>
              files[InitPy(d)] = prev.files[InitPy(d)] /\ CreatedAt(InitPy(d)) = {}
        /\ InitPy(d) \notin DOMAIN prev.files =>
              files[InitPy(d)] = MarkerContent(d) /\ Cardinality(CreatedAt(InitPy(d))) = 1

\* the markers written by the run, as pairs (ancestor, descendant)
WrittenPairs ==
    { pr \in Between(OpPageDir) \X Between(OpPageDir) :
        /\ Len(pr[1]) < Len(pr[2])
        /\ CreatedAt(InitPy(pr[1])) # {}
        /\ CreatedAt(InitPy(pr[2])) # {} }

FirstAt(p) == CHOOSE i \in CreatedAt(p) : \A j \in CreatedAt(p) : i <= j

\* C6 as stated: the markers are written root first.
C6_MarkersRootToLeaf ==
    PageGenerated =>
        /\ MarkersEnsured
        /\ \A pr \in WrittenPairs : FirstAt(InitPy(pr[1])) < FirstAt(InitPy(pr[2]))

\* C6 amended: create_page gives every directory between the pages root and
\* the page directory a marker, never touches one that was there, and writes
\* the missing ones leaf first: a directory's marker after those of its
\* descendants.
C6_MarkersLeafToRoot ==
    PageGenerated =>
        /\ MarkersEnsured
        /\ \A pr \in WrittenPairs : FirstAt(InitPy(pr[2])) < FirstAt(InitPy(pr[1]))

C6_Witness ==
    /\ PageGenerated
    /\ Cardinality(WrittenPairs) >= 1
    /\ \E d \in Between(OpPageDir) : InitPy(d) \in DOMAIN prev.files

OpTable == Lower(ask(op.table, ""))

\* add_model ran past its checks: the model file was written and
\* append_imports called
ModelGenerated ==
    /\ LastRan("add_model")
    /\ OpTable # ""
    /\ ModelPath(OpTable) \notin DOMAIN prev.files

Reported(p) ==
    \E i \in 1..Len(out) : out[i][1] \in {"[Error]", "[Warning]"} /\ out[i][2] = p

\* C7: a missing prerequisite is reported and nothing is done: ensure_env_keys
\* without .env, append_imports without app/models/__init__.py or without
\* app/pages/dbtest/view.py; append_imports does not raise and does not create
\* the missing file.
C7_MissingPrerequisiteIsNoOp ==
    /\ (LastRan("ensure_env_keys") /\ ENV_PATH \notin DOMAIN prev.files) =>
          /\ Reported(ENV_PATH)
          /\ files = prev.files
          /\ status = "ok"
    /\ \A p \in {MODELS_INIT_PATH, DBTEST_VIEW_PATH} :
          (ModelGenerated /\ p \notin DOMAIN prev.files) =>
              /\ Reported(p)
              /\ status = "ok"
              /\ p \notin DOMAIN files

MigrationFailed == \E i \in 1..Len(cmds) : cmds[i][2] # 0

OpImportLine == ImportLine(OpTable, Capitalize(OpTable))

\* C8: when a migration command of the model generator exits non-zero, main
\* returns normally after reporting it, and the model file and the import
\* lines written before are on disk as written: nothing is rolled back.
C8_NoRollbackOnMigrationFailure ==
    (ModelGenerated /\ MigrationFailed) =>
        /\ status = "ok"
        /\ out[Len(out)] = <<"[Error]", <<"migration">>>>
        /\ DOMAIN files = DOMAIN prev.files \cup {ModelPath(OpTable)}
        /\ files[ModelPath(OpTable)] = ModelSource(OpTable, Capitalize(OpTable), op.columns)
        /\ Contains(files[MODELS_INIT_PATH], OpImportLine)
        /\ files[MODELS_INIT_PATH] =
              IF Contains(prev.files[MODELS_INIT_PATH], OpImportLine)
              THEN prev.files[MODELS_INIT_PATH]
              ELSE prev.files[MODELS_INIT_PATH] \o OpImportLine
        /\ DBTEST_VIEW_PATH \in DOMAIN prev.files =>
              /\ Contains(files[DBTEST_VIEW_PATH], OpImportLine)
              /\ files[DBTEST_VIEW_PATH] =
                    IF Contains(prev.files[DBTEST_VIEW_PATH], OpImportLine)
                    THEN prev.files[DBTEST_VIEW_PATH]
                    ELSE OpImportLine \o prev.files[DBTEST_VIEW_PATH]
        /\ \A p \in DOMAIN prev.files \ {MODELS_INIT_PATH, DBTEST_VIEW_PATH} : Unchanged(p)

C8_Witness ==
    /\ ModelGenerated
    /\ MigrationFailed
    /\ op.columns # <<>>
    /\ DBTEST_VIEW_PATH \in DOMAIN prev.files
    /\ files[DBTEST_VIEW_PATH] = OpImportLine \o prev.files[DBTEST_VIEW_PATH]
    /\ files[MODELS_INIT_PATH] = prev.files[MODELS_INIT_PATH] \o OpImportLine

ModelRefused ==
    /\ LastRan("add_model")
    /\ OpTable # ""
    /\ ModelPath(OpTable) \in DOMAIN prev.files

PageRefused ==
    /\ LastRan("create_page")
    /\ \/ Append(OpPageDir, "view.py") \in DOMAIN prev.files
       \/ Append(OpPageDir, "index.html") \in DOMAIN prev.files

\* C9: a generator whose target exists changes nothing: the model generator
\* when app/models/<table>.py exists (no file changed, no migration command
\* started), create_page when the page's view.py or index.html exists.
C9_ExistingTargetAborts ==
    /\ ModelRefused =>
          /\ files = prev.files
          /\ dirs = prev.dirs
          /\ cmds = <<>>
          /\ status = "ok"
          /\ out = << <<"[Error]", ModelPath(OpTable)>> >>
    /\ PageRefused =>
          /\ files = prev.files
          /\ dirs = prev.dirs
          /\ status = "ok"
          /\ out = << <<"[Warning]", OpPageDir>> >>

\* model 'post' generated by one run and refused by the next
C9_Witness ==
    /\ ModelRefused
    /\ prevOp = "add_model"
    /\ OpTable = "post"
    /\ MODELS_INIT_PATH \in DOMAIN prev.files
    /\ \E columns \in ColumnLists :
          prev.files[ModelPath("post")] = ModelSource("post", "Post", columns)
    /\ Contains(prev.files[MODELS_INIT_PATH], ImportLine("post", "Post"))

\* the files setup_db neither appends to nor overwrites
CreateOnlyFiles(f) == DOMAIN f \ {INIT_PY, INIT_BAK, ENV_PATH, REQUIREMENTS_TXT}

\* C10: after a run of setup_db that found app/__init__.py, the backup holds
\* what app/__init__.py held when the run started and app/__init__.py holds
\* the new factory; after a second run the backup holds the factory and what
\* the first run backed up is in neither file; no other file that existed is
\* written by create_file.
C10_BackupBeforeOverwrite ==
    LastRan("setup_db") =>
        /\ files[INIT_PY] = APP_INIT
        /\ INIT_PY \in DOMAIN prev.files =>
              INIT_BAK \in DOMAIN files /\ files[INIT_BAK] = prev.files[INIT_PY]
        /\ INIT_PY \notin DOMAIN prev.files =>
              (INIT_BAK \in DOMAIN files <=> Unchanged(INIT_BAK))
        /\ prevOp = "setup_db" =>
              /\ files[INIT_BAK] = APP_INIT
              /\ (INIT_BAK \in DOMAIN prev.files /\ prev.files[INIT_BAK] # APP_INIT) =>
                    \A p \in {INIT_PY, INIT_BAK} : files[p] # prev.files[INIT_BAK]
        /\ \A p \in CreateOnlyFiles(prev.files) : Unchanged(p)

\* a second run that destroys the backup the first run took
C10_Witness ==
    /\ LastRan("setup_db")
    /\ prevOp = "setup_db"
    /\ INIT_BAK \in DOMAIN prev.files
    /\ prev.files[INIT_BAK] = <<"hand-written factory">>
    /\ files[INIT_BAK] = APP_INIT

\* the subcommands of run_flask_db_commands and of auto_migrate, in source order
SetupDbCommands == << "flask db init", "flask db migrate", "flask db upgrade" >>

AutoMigrateCommands == << "flask db migrate", "flask db upgrade" >>

\* the commands started are the first ones of `names`, in that order and each
\* once; all but the last started exited zero; the run stops short of the
\* whole list only on a non-zero exit
StartedInOrderGated(names) ==
    /\ Len(cmds) \in 1..Len(names)
    /\ \A i \in 1..Len(cmds) : cmds[i][1] = names[i]
    /\ \A i \in 1..(Len(cmds) - 1) : cmds[i][2] = 0
    /\ Len(cmds) < Len(names) => cmds[Len(cmds)][2] # 0

\* add_model reached auto_migrate: append_imports found app/models/__init__.py
AutoMigrateCalled == ModelGenerated /\ MODELS_INIT_PATH \in DOMAIN prev.files

\* C11: run_flask_db_commands starts init, migrate, upgrade and auto_migrate
\* starts migrate, upgrade, in that order and each at most once; a command is
\* started only after every earlier one of the call exited zero, so nothing
\* follows the first non-zero exit, nothing is retried, and the function
\* returns normally.
C11_CommandsOrderedAndGated ==
    /\ LastRan("setup_db") => StartedInOrderGated(SetupDbCommands) /\ status = "ok"
    /\ AutoMigrateCalled => StartedInOrderGated(AutoMigrateCommands) /\ status = "ok"

\* setup_db whose migrate command failed: init ran before it, upgrade never started
C11_Witness ==
    /\ LastRan("setup_db")
    /\ cmds = << <<"flask db init", 0>>, <<"flask db migrate", 1>> >>
    /\ out[Len(out)] = <<"[Error]", <<"flask db">>>>
    /\ status = "ok"

====
